---- MODULE Spec2Model ----
(***************************************************************************)
(* Penguin dashboard (src/app.py): the reactive filter calculation, the    *)
(* data validator, the attribute label maps and the five renderers.        *)
(*                                                                         *)
(* A table is a sequence of rows, a row a record of cells, a cell either   *)
(* <<>> (missing, pandas NaN) or <<v>> (the value v).                      *)
(***************************************************************************)
EXTENDS Integers, Sequences, FiniteSets, TLC

VARIABLES
    penguins_df,            \* the dataset loaded at start-up
    attribute_labels,       \* internal column name -> display label
    attribute_reverse_map,  \* display label -> internal column name
    selected_species_list,  \* input: checkbox group
    selected_island_list,   \* input: checkbox group
    selected_attribute,     \* input: selectize
    plotly_bin_count,       \* input: numeric
    seaborn_bin_count,      \* input: slider
    calcValid,              \* filtered_data holds a value computed from the current inputs
    calcValue,              \* the value filtered_data computed last
    deps,                   \* what each renderer read in its last run
    pending,                \* renderers invalidated and not yet re-run
    outputs,                \* what each view shows
    log,                    \* warning records of the latest renderer run
    phase,                  \* "idle" or "flush" (a reactive cycle is in progress)
    cycleRuns,              \* runs of the body of filtered_data in the current cycle
    changes,                \* input changes so far
    v_data, v_attr, v_result    \* a direct call validate_data(v_data, v_attr)

vars == << penguins_df, attribute_labels, attribute_reverse_map,
           selected_species_list, selected_island_list, selected_attribute,
           plotly_bin_count, seaborn_bin_count, calcValid, calcValue, deps,
           pending, outputs, log, phase, cycleRuns, changes,
           v_data, v_attr, v_result >>

inputVars == << selected_species_list, selected_island_list, selected_attribute,
                plotly_bin_count, seaborn_bin_count >>
mapVars == << penguins_df, attribute_labels, attribute_reverse_map >>
valVars == << v_data, v_attr, v_result >>

-----------------------------------------------------------------------------
(* Bounds *)

MaxChanges == 2
MaxValRows == 2

-----------------------------------------------------------------------------
(* Values *)

Missing == <<>>
IsNull(cell) == cell = Missing
Range(f) == { f[k] : k \in DOMAIN f }

SpeciesChoices == {"Adelie", "Gentoo", "Chinstrap"}
IslandChoices == {"Biscoe", "Dream", "Torgersen"}

PlotlyBinDefault == 10
PlotlyBinMin == 1
PlotlyBinMax == 100
SeabornBinMin == 5
SeabornBinMax == 50
SeabornBinDefault == 20

PlotlyBinChoices == {PlotlyBinMin, PlotlyBinDefault, PlotlyBinMax}
SeabornBinChoices == {SeabornBinMin, SeabornBinDefault, SeabornBinMax}

\* The labels with one label typed twice.
AttributeLabelsDuplicate ==
    [ bill_length_mm |-> "Bill Length (mm)",
      bill_depth_mm |-> "Bill Length (mm)",
      flipper_length_mm |-> "Flipper Length (mm)",
      body_mass_g |-> "Body Mass (g)" ]

AttributeLabels ==
    [ bill_length_mm |-> "Bill Length (mm)",
      bill_depth_mm |-> "Bill Depth (mm)",
      flipper_length_mm |-> "Flipper Length (mm)",
      body_mass_g |-> "Body Mass (g)" ]

\* {v: k for k, v in attribute_labels.items()}: a later key overwrites an
\* earlier one with the same label; the keys are taken in insertion order.
KeyOrder == << "bill_length_mm", "bill_depth_mm", "flipper_length_mm", "body_mass_g" >>
ReverseMap(m) ==
    [ l \in Range(m) |->
        LET last == CHOOSE i \in 1..Len(KeyOrder) :
                        /\ m[KeyOrder[i]] = l
                        /\ \A j \in (i+1)..Len(KeyOrder) : m[KeyOrder[j]] # l
        IN  KeyOrder[last] ]

\* The selectize offers the four labels; a single-select selectize can also be
\* cleared, which sends the empty string.
AttributeChoices == Range(AttributeLabels) \cup {""}

Row(i, sp, isl, bl, bd, fl, bm, sx, yr) ==
    [ idx |-> <<i>>, species |-> sp, island |-> isl, bill_length_mm |-> bl,
      bill_depth_mm |-> bd, flipper_length_mm |-> fl, body_mass_g |-> bm,
      sex |-> sx, year |-> yr ]

\* A sample of the Palmer penguins table: the three islands and species in
\* the combinations the table has, and its two rows without measurements.
PenguinsSample ==
    << Row(0, <<"Adelie">>, <<"Torgersen">>, <<39>>, <<19>>, <<181>>, <<3750>>, <<"male">>, <<2007>>),
       Row(1, <<"Adelie">>, <<"Torgersen">>, Missing, Missing, Missing, Missing, Missing, <<2007>>),
       Row(2, <<"Adelie">>, <<"Biscoe">>, <<38>>, <<18>>, <<174>>, <<3400>>, <<"female">>, <<2007>>),
       Row(3, <<"Adelie">>, <<"Dream">>, <<40>>, <<19>>, <<178>>, <<3250>>, <<"female">>, <<2007>>),
       Row(4, <<"Gentoo">>, <<"Biscoe">>, <<46>>, <<13>>, <<211>>, <<4500>>, <<"female">>, <<2007>>),
       Row(5, <<"Gentoo">>, <<"Biscoe">>, Missing, Missing, Missing, Missing, Missing, <<2009>>),
       Row(6, <<"Chinstrap">>, <<"Dream">>, <<47>>, <<18>>, <<192>>, <<3500>>, <<"female">>, <<2007>>) >>

-----------------------------------------------------------------------------
(* validate_data *)

EmptyWarning == "The filtered data is empty or contains only NaN values."
AttributeWarning(a) == "Selected attribute '" \o a \o "' contains NaN values."

DataColumns(data) == IF data = <<>> THEN {} ELSE DOMAIN data[1] \ {"idx"}
IsEmpty(data) == Len(data) = 0
AllNull(data) ==
    \A i \in 1..Len(data) : \A c \in DataColumns(data) : IsNull(data[i][c])
AnyNull(data, a) == \E i \in 1..Len(data) : IsNull(data[i][a])

\* A validator that also rejects a table whose attribute column has gaps.
validate_data_strict(data, a) ==
    IF IsEmpty(data) \/ AllNull(data)
    THEN [ ret |-> "False", log |-> << EmptyWarning >> ]
    ELSE IF a \notin DataColumns(data)
    THEN [ ret |-> "KeyError", log |-> << >> ]
    ELSE IF AnyNull(data, a)
    THEN [ ret |-> "False", log |-> << AttributeWarning(a) >> ]
    ELSE [ ret |-> "True", log |-> << >> ]

\* ret is "True", "False", or "KeyError" when the column lookup raises.
validate_data(data, a) ==
    IF IsEmpty(data) \/ AllNull(data)
    THEN [ ret |-> "False", log |-> << EmptyWarning >> ]
    ELSE IF a \notin DataColumns(data)
    THEN [ ret |-> "KeyError", log |-> << >> ]
    ELSE IF AnyNull(data, a)
    THEN [ ret |-> "True", log |-> << AttributeWarning(a) >> ]
    ELSE [ ret |-> "True", log |-> << >> ]

-----------------------------------------------------------------------------
(* filtered_data *)

\* Series.isin(values): a missing cell is in no list of strings.
Isin(cell, values) == \E v \in values : cell = <<v>>

RECURSIVE SelectRows(_, _, _)
SelectRows(df, col, values) ==
    IF df = <<>> THEN <<>>
    ELSE LET rest == SelectRows(Tail(df), col, values)
         IN  IF Isin(Head(df)[col], values) THEN <<Head(df)>> \o rest ELSE rest

\* The island filter applied to the dataset instead of to filtered_df.
FilterBodyUnchained(df, species, islands) ==
    LET filtered_df == SelectRows(df, "species", species)
    IN  SelectRows(df, "island", islands)

FilterBody(df, species, islands) ==
    LET filtered_df == SelectRows(df, "species", species)
    IN  SelectRows(filtered_df, "island", islands)

\* What a read of filtered_data() returns: the cached value, or the body's.
\* A calculation that is not cached.
CalcRunsBodyAlways == TRUE

\* @reactive.calc runs the body only when it holds no valid value.
CalcRunsBody == ~calcValid
ReadFiltered ==
    IF CalcRunsBody
    THEN FilterBody(penguins_df, selected_species_list, selected_island_list)
    ELSE calcValue

-----------------------------------------------------------------------------
(* Renderers *)

Renderers == {"penguins_datatable", "penguins_datagrid", "histogram_plot",
              "scatter_plot", "seaborn_histogram"}
ChartRenderers == {"histogram_plot", "scatter_plot", "seaborn_histogram"}
TableRenderers == {"penguins_datatable", "penguins_datagrid"}

Artifact(kind, data, x, y, nbins, color, title, xaxis_title, yaxis_title) ==
    [ kind |-> kind, data |-> data, x |-> x, y |-> y, nbins |-> nbins,
      color |-> color, title |-> title, xaxis_title |-> xaxis_title,
      yaxis_title |-> yaxis_title ]

Plain(kind, data) == Artifact(kind, data, "", "", 0, "", "", "", "")
Unrendered == Plain("unrendered", <<>>)
NothingToRender == Plain("None", <<>>)
Raised(err) == Plain(err, <<>>)

\* d.get(key, default): an unknown key silently gives the first column.
GetItemDefault(d, key) ==
    IF key \in DOMAIN d THEN [ ok |-> TRUE, val |-> d[key] ]
    ELSE [ ok |-> TRUE, val |-> KeyOrder[1] ]

\* d[key]: raises KeyError for a key the dict does not have.
GetItem(d, key) ==
    IF key \in DOMAIN d THEN [ ok |-> TRUE, val |-> d[key] ]
    ELSE [ ok |-> FALSE, val |-> "" ]

\* A renderer body gives the artifact, the inputs it read after
\* filtered_data(), and the warnings it logged.
Result(out, reads, lg) == [ out |-> out, reads |-> reads, log |-> lg ]

DataTableBody(data) == Result(Plain("DataTable", data), {}, <<>>)

DataGridBody(data) == Result(Plain("DataGrid", data), {}, <<>>)

\* A histogram that is given the default bin count, not the input's.
HistogramBodyDefaultBins(data, rmap, label, nbins) ==
    LET attribute == GetItem(rmap, label)
        v == validate_data(data, attribute.val)
    IN  IF ~attribute.ok THEN Result(Raised("KeyError"), {"selected_attribute"}, <<>>)
        ELSE IF v.ret = "KeyError"
        THEN Result(Raised("KeyError"), {"selected_attribute"}, v.log)
        ELSE IF v.ret = "False"
        THEN Result(NothingToRender, {"selected_attribute"}, v.log)
        ELSE Result(Artifact("px.histogram", data, attribute.val, "", PlotlyBinDefault,
                             "species", label \o " Frequency", label, "Count"),
                    {"selected_attribute"}, v.log)

HistogramBody(data, rmap, label, nbins) ==
    LET attribute == GetItem(rmap, label)
        v == validate_data(data, attribute.val)
    IN  IF ~attribute.ok THEN Result(Raised("KeyError"), {"selected_attribute"}, <<>>)
        ELSE IF v.ret = "KeyError"
        THEN Result(Raised("KeyError"), {"selected_attribute"}, v.log)
        ELSE IF v.ret = "False"
        THEN Result(NothingToRender, {"selected_attribute"}, v.log)
        ELSE Result(Artifact("px.histogram", data, attribute.val, "", nbins, "species",
                             label \o " Frequency", label, "Count"),
                    {"selected_attribute", "plotly_bin_count"}, v.log)

ScatterBody(data, rmap, label) ==
    LET attribute == GetItem(rmap, label)
        v == validate_data(data, attribute.val)
    IN  IF ~attribute.ok THEN Result(Raised("KeyError"), {"selected_attribute"}, <<>>)
        ELSE IF v.ret = "KeyError"
        THEN Result(Raised("KeyError"), {"selected_attribute"}, v.log)
        ELSE IF v.ret = "False"
        THEN Result(NothingToRender, {"selected_attribute"}, v.log)
        ELSE Result(Artifact("px.scatter", data, attribute.val, "body_mass_g", 0, "species",
                             label \o " vs Body Mass(g)", label, "Body Mass (g)"),
                    {"selected_attribute"}, v.log)

SeabornBody(data, rmap, label, bins) ==
    LET attribute == GetItem(rmap, label)
        v == validate_data(data, attribute.val)
    IN  IF ~attribute.ok THEN Result(Raised("KeyError"), {"selected_attribute"}, <<>>)
        ELSE IF v.ret = "KeyError"
        THEN Result(Raised("KeyError"), {"selected_attribute"}, v.log)
        ELSE IF v.ret = "False"
        THEN Result(NothingToRender, {"selected_attribute"}, v.log)
        ELSE Result(Artifact("sns.histplot", data, attribute.val, "", bins, "species",
                             "Distribution of " \o label \o " by Species", label, "Count"),
                    {"selected_attribute", "seaborn_bin_count"}, v.log)

-----------------------------------------------------------------------------
(* The reactive graph *)

Uncalled == [ ret |-> "uncalled", log |-> <<>> ]

Constructed ==
    /\ penguins_df = PenguinsSample
    /\ attribute_labels = AttributeLabels
    /\ attribute_reverse_map = ReverseMap(AttributeLabels)
    /\ selected_species_list = SpeciesChoices
    /\ selected_island_list = IslandChoices
    /\ selected_attribute = AttributeLabels[KeyOrder[1]]
    /\ plotly_bin_count = PlotlyBinDefault
    /\ seaborn_bin_count = SeabornBinDefault
    /\ calcValid = FALSE
    /\ calcValue = <<>>
    /\ deps = [ r \in Renderers |-> {} ]
    /\ pending = Renderers
    /\ outputs = [ r \in Renderers |-> Unrendered ]
    /\ log = <<>>
    /\ phase = "idle"
    /\ cycleRuns = 0
    /\ changes = 0

Init ==
    /\ Constructed
    /\ v_data = <<>>
    /\ v_attr = ""
    /\ v_result = Uncalled

\* Renderers that read their own inputs without taking a dependency.
DependentsOfCalcOnly(source) ==
    { r \in Renderers : source \in deps[r] /\ source = "filtered_data" }

\* The renderers whose last run read the source.
Dependents(source) == { r \in Renderers : source \in deps[r] }

\* An input changed between two cycles: the contexts that read it are
\* invalidated, and a context is used once.
InputChanged(invalidated) ==
    /\ phase = "idle"
    /\ changes < MaxChanges
    /\ changes' = changes + 1
    /\ pending' = pending \cup invalidated
    /\ deps' = [ r \in Renderers |-> IF r \in invalidated THEN {} ELSE deps[r] ]
    /\ UNCHANGED << mapVars, valVars, calcValue, outputs, log, phase, cycleRuns >>

\* Invalidating filtered_data invalidates what read it.
CalcInvalidated == IF calcValid THEN Dependents("filtered_data") ELSE {}

change_selected_species_list ==
    \E s \in SUBSET SpeciesChoices :
        /\ s # selected_species_list
        /\ selected_species_list' = s
        /\ calcValid' = FALSE
        /\ InputChanged(CalcInvalidated)
        /\ UNCHANGED << selected_island_list, selected_attribute,
                        plotly_bin_count, seaborn_bin_count >>

change_selected_island_list ==
    \E s \in SUBSET IslandChoices :
        /\ s # selected_island_list
        /\ selected_island_list' = s
        /\ calcValid' = FALSE
        /\ InputChanged(CalcInvalidated)
        /\ UNCHANGED << selected_species_list, selected_attribute,
                        plotly_bin_count, seaborn_bin_count >>

change_selected_attribute ==
    \E l \in AttributeChoices :
        /\ l # selected_attribute
        /\ selected_attribute' = l
        /\ InputChanged(Dependents("selected_attribute"))
        /\ UNCHANGED << selected_species_list, selected_island_list,
                        plotly_bin_count, seaborn_bin_count, calcValid >>

change_plotly_bin_count ==
    \E n \in PlotlyBinChoices :
        /\ n # plotly_bin_count
        /\ plotly_bin_count' = n
        /\ InputChanged(Dependents("plotly_bin_count"))
        /\ UNCHANGED << selected_species_list, selected_island_list,
                        selected_attribute, seaborn_bin_count, calcValid >>

change_seaborn_bin_count ==
    \E n \in SeabornBinChoices :
        /\ n # seaborn_bin_count
        /\ seaborn_bin_count' = n
        /\ InputChanged(Dependents("seaborn_bin_count"))
        /\ UNCHANGED << selected_species_list, selected_island_list,
                        selected_attribute, plotly_bin_count, calcValid >>

\* One invalidated renderer runs: it reads filtered_data() first (the body
\* of the calc runs if it holds no valid value), then its own inputs.
Run(r, res) ==
    /\ r \in pending
    /\ calcValue' = ReadFiltered
    /\ calcValid' = TRUE
    /\ cycleRuns' = (IF phase = "idle" THEN 0 ELSE cycleRuns)
                        + (IF CalcRunsBody THEN 1 ELSE 0)
    /\ outputs' = [ outputs EXCEPT ![r] = res.out ]
    /\ deps' = [ deps EXCEPT ![r] = {"filtered_data"} \cup res.reads ]
    /\ log' = res.log
    /\ pending' = pending \ {r}
    /\ phase' = IF pending' = {} THEN "idle" ELSE "flush"
    /\ UNCHANGED << mapVars, inputVars, valVars, changes >>

penguins_datatable == Run("penguins_datatable", DataTableBody(ReadFiltered))

penguins_datagrid == Run("penguins_datagrid", DataGridBody(ReadFiltered))

histogram_plot ==
    Run("histogram_plot",
        HistogramBody(ReadFiltered, attribute_reverse_map, selected_attribute,
                      plotly_bin_count))

scatter_plot ==
    Run("scatter_plot",
        ScatterBody(ReadFiltered, attribute_reverse_map, selected_attribute))

seaborn_histogram ==
    Run("seaborn_histogram",
        SeabornBody(ReadFiltered, attribute_reverse_map, selected_attribute,
                    seaborn_bin_count))

Next ==
    \/ change_selected_species_list
    \/ change_selected_island_list
    \/ change_selected_attribute
    \/ change_plotly_bin_count
    \/ change_seaborn_bin_count
    \/ penguins_datatable
    \/ penguins_datagrid
    \/ histogram_plot
    \/ scatter_plot
    \/ seaborn_histogram

Spec == Init /\ [][Next]_vars

-----------------------------------------------------------------------------
(* Direct calls of validate_data on arbitrary small tables *)

ValColumns == {"species", "bill_length_mm", "body_mass_g"}
ValRows == [ ValColumns -> {Missing, <<1>>} ]
ValTables == UNION { [ 1..n -> ValRows ] : n \in 0..MaxValRows }

InitValidate ==
    /\ Constructed
    /\ v_data \in ValTables
    /\ v_attr \in ValColumns
    /\ v_result = Uncalled

call_validate_data ==
    /\ v_result = Uncalled
    /\ v_result' = validate_data(v_data, v_attr)
    /\ UNCHANGED << mapVars, inputVars, calcValid, calcValue, deps, pending,
                    outputs, log, phase, cycleRuns, changes, v_data, v_attr >>

NextValidate == call_validate_data

SpecValidate == InitValidate /\ [][NextValidate]_vars

-----------------------------------------------------------------------------
(* Properties *)

Fresh(r) == r \notin pending
Quiescent == phase = "idle" /\ pending = {}
ChartKinds == {"px.histogram", "px.scatter", "sns.histplot"}
LabelKnown == selected_attribute \in Range(AttributeLabels)

\* The rows the selection asks for, stated on the dataset.
Matching ==
    { i \in 1..Len(penguins_df) :
        /\ \E sp \in selected_species_list : penguins_df[i].species = <<sp>>
        /\ \E isl \in selected_island_list : penguins_df[i].island = <<isl>> }
KthMatching(k) ==
    CHOOSE i \in Matching : Cardinality({ j \in Matching : j < i }) = k - 1
ExpectedFiltered ==
    [ k \in 1..Cardinality(Matching) |-> penguins_df[KthMatching(k)] ]

\* C1: filtered_data() returns exactly the dataset rows with species in S and
\* island in I, in dataset order, whatever was selected before: no rows for
\* S = {}, the whole dataset for all species and all islands, and the same
\* value when read again under unchanged criteria.
C1_State ==
    /\ calcValid => calcValue = ExpectedFiltered
    /\ \A r \in TableRenderers : Fresh(r) => outputs[r].data = ExpectedFiltered
    /\ (calcValid /\ selected_species_list = {}) => calcValue = <<>>
    /\ (calcValid /\ selected_species_list = SpeciesChoices
                  /\ selected_island_list = IslandChoices) => calcValue = penguins_df
C1_Step ==
    (/\ calcValid /\ calcValid'
     /\ UNCHANGED << selected_species_list, selected_island_list >>)
        => calcValue' = calcValue
C1_FilterExact == []C1_State /\ [][C1_Step]_vars
C1_Witness ==
    /\ calcValid
    /\ changes = 2
    /\ selected_species_list = {"Adelie"}
    /\ selected_island_list = {"Torgersen"}
    /\ Len(calcValue) = 2

\* C2: validate_data(data, attribute), attribute a column of data, returns
\* False exactly when data has no rows or every value of every column is
\* missing; missing values in the attribute column of a table that has some
\* value elsewhere give True and one warning record.
EveryValueMissing ==
    \A i \in 1..Len(v_data) : \A c \in ValColumns : v_data[i][c] = Missing
AttributeHasMissing == \E i \in 1..Len(v_data) : v_data[i][v_attr] = Missing
C2_ValidateContract ==
    v_result # Uncalled =>
        /\ v_result.ret \in {"True", "False"}
        /\ v_result.ret = "False" <=> (Len(v_data) = 0 \/ EveryValueMissing)
        /\ (Len(v_data) > 0 /\ ~EveryValueMissing /\ AttributeHasMissing)
              => /\ v_result.ret = "True"
                 /\ v_result.log = << AttributeWarning(v_attr) >>
C2_Witness ==
    /\ v_result # Uncalled
    /\ Len(v_data) > 0
    /\ \A i \in 1..Len(v_data) : v_data[i][v_attr] = Missing
    /\ ~EveryValueMissing
    /\ v_result.ret = "True"

\* The current filtered dataset fails validation.
ValidationFails == Matching = {} \/ AllNull(ExpectedFiltered)

\* C3: a chart renderer shows nothing exactly when validation fails on the
\* current filtered dataset and a chart otherwise; the two tables always show
\* a table; with no species selected the charts are blank, none in error.
C3_GateOnValidation ==
    /\ \A r \in ChartRenderers : Fresh(r) =>
          /\ outputs[r].kind = "None" <=> ValidationFails
          /\ outputs[r].kind \in ChartKinds <=> ~ValidationFails
    /\ \A r \in TableRenderers : Fresh(r) =>
          outputs[r].kind \in {"DataTable", "DataGrid"}
    /\ selected_species_list = {} =>
          /\ \A r \in ChartRenderers : Fresh(r) => outputs[r].kind = "None"
          /\ \A r \in TableRenderers : Fresh(r) => outputs[r].data = <<>>

\* C4: the two label maps are inverse bijections between the four column
\* names and the four labels, and no input change or render changes them.
C4_State ==
    /\ DOMAIN attribute_labels = Range(KeyOrder)
    /\ Cardinality(DOMAIN attribute_reverse_map) = 4
    /\ \A n \in DOMAIN attribute_labels :
          /\ attribute_labels[n] \in DOMAIN attribute_reverse_map
          /\ attribute_reverse_map[attribute_labels[n]] = n
    /\ \A l \in DOMAIN attribute_reverse_map :
          /\ attribute_reverse_map[l] \in DOMAIN attribute_labels
          /\ attribute_labels[attribute_reverse_map[l]] = l
C4_LabelBijection ==
    []C4_State /\ [][UNCHANGED << attribute_labels, attribute_reverse_map >>]_vars
C4_Witness ==
    /\ Quiescent
    /\ changes = 2
    /\ attribute_reverse_map["Body Mass (g)"] = "body_mass_g"
    /\ outputs["scatter_plot"].x = "body_mass_g"

\* C5: a label outside the fixed set makes the lookup fail: the chart
\* renderer ends in the lookup error, with no column chosen, also when the
\* filtered dataset is empty.
C5_LookupFails ==
    /\ \A k \in AttributeChoices \ DOMAIN attribute_reverse_map :
          ~GetItem(attribute_reverse_map, k).ok
    /\ \A r \in ChartRenderers :
          (Fresh(r) /\ selected_attribute \notin DOMAIN attribute_reverse_map)
              => outputs[r].kind = "KeyError" /\ outputs[r].x = ""
C5_Witness ==
    /\ Quiescent
    /\ selected_attribute = ""
    /\ selected_species_list = {}
    /\ calcValue = <<>>
    /\ \A r \in ChartRenderers : outputs[r].kind = "KeyError"

\* C6: no run of a chart renderer ends in a failure that leaves the
\* renderer: a chart view shows a chart or nothing.
C6_NoFailurePropagates ==
    \A r \in ChartRenderers :
        outputs[r].kind \in ChartKinds \cup {"None", "unrendered"}

\* C7: the body of filtered_data runs again exactly when a selection
\* changed: a change of species or islands leaves it without a valid value,
\* a change of a display option leaves the value and its validity alone, a
\* read of a valid value does not run the body, the body runs at most once in
\* a cycle, and a finished cycle leaves a valid value.
C7_State ==
    /\ cycleRuns <= 1
    /\ Quiescent => calcValid
C7_Step ==
    /\ (selected_species_list' # selected_species_list
        \/ selected_island_list' # selected_island_list) => ~calcValid'
    /\ (selected_attribute' # selected_attribute
        \/ plotly_bin_count' # plotly_bin_count
        \/ seaborn_bin_count' # seaborn_bin_count)
          => UNCHANGED << calcValid, calcValue, cycleRuns >>
    /\ (calcValid /\ pending' # pending /\ pending' \subseteq pending)
          => /\ calcValue' = calcValue
             /\ cycleRuns' = IF phase = "idle" THEN 0 ELSE cycleRuns
    /\ (~calcValid /\ calcValid')
          => cycleRuns' = 1
C7_RecomputeOnChange == []C7_State /\ [][C7_Step]_vars
C7_Witness ==
    /\ Quiescent
    /\ changes = 2
    /\ cycleRuns = 0
    /\ selected_attribute = "Bill Depth (mm)"
    /\ selected_species_list = {"Gentoo"}

\* C8: when validation passes, each chart is requested on the column the
\* selected label maps to, with the renderer's own bin count and with title
\* and axis labels built from the label.
InternalName == CHOOSE n \in Range(KeyOrder) : AttributeLabels[n] = selected_attribute
C8_ChartRequest ==
    (LabelKnown /\ ~ValidationFails) =>
        /\ Fresh("histogram_plot") =>
              /\ outputs["histogram_plot"].kind = "px.histogram"
              /\ outputs["histogram_plot"].x = InternalName
              /\ outputs["histogram_plot"].nbins = plotly_bin_count
              /\ outputs["histogram_plot"].title = selected_attribute \o " Frequency"
              /\ outputs["histogram_plot"].xaxis_title = selected_attribute
              /\ outputs["histogram_plot"].yaxis_title = "Count"
              /\ (selected_attribute = "Bill Length (mm)" /\ plotly_bin_count = 10)
                    => /\ outputs["histogram_plot"].x = "bill_length_mm"
                       /\ outputs["histogram_plot"].nbins = 10
        /\ Fresh("scatter_plot") =>
              /\ outputs["scatter_plot"].kind = "px.scatter"
              /\ outputs["scatter_plot"].x = InternalName
              /\ outputs["scatter_plot"].y = "body_mass_g"
              /\ outputs["scatter_plot"].title = selected_attribute \o " vs Body Mass(g)"
              /\ outputs["scatter_plot"].xaxis_title = selected_attribute
              /\ outputs["scatter_plot"].yaxis_title = "Body Mass (g)"
        /\ Fresh("seaborn_histogram") =>
              /\ outputs["seaborn_histogram"].kind = "sns.histplot"
              /\ outputs["seaborn_histogram"].x = InternalName
              /\ outputs["seaborn_histogram"].nbins = seaborn_bin_count
              /\ outputs["seaborn_histogram"].title =
                    "Distribution of " \o selected_attribute \o " by Species"
              /\ outputs["seaborn_histogram"].xaxis_title = selected_attribute
              /\ outputs["seaborn_histogram"].yaxis_title = "Count"
C8_Witness ==
    /\ Quiescent
    /\ selected_attribute = "Flipper Length (mm)"
    /\ plotly_bin_count = PlotlyBinMax
    /\ seaborn_bin_count = SeabornBinDefault
    /\ outputs["histogram_plot"].nbins = PlotlyBinMax
    /\ outputs["seaborn_histogram"].nbins = SeabornBinDefault
    /\ outputs["histogram_plot"].x = "flipper_length_mm"

\* What each view shows when computed from the current inputs.
Current(r) ==
    CASE r = "penguins_datatable" -> DataTableBody(ExpectedFiltered).out
      [] r = "penguins_datagrid" -> DataGridBody(ExpectedFiltered).out
      [] r = "histogram_plot" ->
            HistogramBody(ExpectedFiltered, attribute_reverse_map,
                          selected_attribute, plotly_bin_count).out
      [] r = "scatter_plot" ->
            ScatterBody(ExpectedFiltered, attribute_reverse_map,
                        selected_attribute).out
      [] r = "seaborn_histogram" ->
            SeabornBody(ExpectedFiltered, attribute_reverse_map,
                        selected_attribute, seaborn_bin_count).out

\* C9: every renderer that is not waiting to run shows what the current
\* criteria and options give, so a finished cycle leaves no view showing an
\* earlier selection; changing a display option alone leaves the filtered
\* dataset and the two tables as they are.
C9_State == \A r \in Renderers : Fresh(r) => outputs[r] = Current(r)
C9_Step ==
    (selected_attribute' # selected_attribute
        \/ plotly_bin_count' # plotly_bin_count
        \/ seaborn_bin_count' # seaborn_bin_count)
          => /\ UNCHANGED << calcValid, calcValue >>
             /\ \A r \in TableRenderers :
                   /\ outputs'[r] = outputs[r]
                   /\ Fresh(r) => r \notin pending'
C9_ViewsCurrent == []C9_State /\ [][C9_Step]_vars
C9_Witness ==
    /\ Quiescent
    /\ changes = 2
    /\ selected_island_list = {"Dream"}
    /\ seaborn_bin_count = SeabornBinMin
    /\ outputs["seaborn_histogram"].nbins = SeabornBinMin
    /\ Len(outputs["penguins_datagrid"].data) = 2

\* C10: the rows filtered_data returns have a species and an island, the
\* table it returns is never all missing, and a chart renderer shows nothing
\* exactly when no dataset row has its species and its island selected.
C10_BlankIffNoRows ==
    /\ calcValid =>
          /\ \A i \in 1..Len(calcValue) :
                ~IsNull(calcValue[i].species) /\ ~IsNull(calcValue[i].island)
          /\ ~IsEmpty(calcValue) => ~AllNull(calcValue)
    /\ \A r \in ChartRenderers :
          Fresh(r) => (outputs[r].kind = "None" <=> Matching = {})

====
